---- MODULE Spec2Model ----
(***************************************************************************)
(* Model of backend/server.py of Etherial Particles: the ConnectionManager *)
(* (live connection list, cached last results, broadcast), the /ws session *)
(* handler with its frame-analysis dispatch, and the /ws/beats pulse loop. *)
(*                                                                         *)
(* Conventions.  A JSON field is modelled by the strings "true", "false"   *)
(* and "absent" (key not in the object).  What a detector does on a frame  *)
(* is part of the frame (field img): it raises, finds nothing, or returns  *)
(* detections.  A key of a reply that may be missing holds a set: {} when  *)
(* the key is missing, {value} when present.  Times are in milliseconds.   *)
(* A send on a connection raises exactly when the peer is gone.            *)
(***************************************************************************)
EXTENDS Integers, Sequences, FiniteSets, TLC

\* ------------------------------------------------------------------ bounds
\* messages delivered on one /ws connection ("connected" included) before the
\* model stops feeding its handler
MaxSent == 2
\* pulses one /ws/beats handler delivers before the model stops its sends
MaxBeats == 3

\* the WebSocket objects handed to /ws handlers and to the ConnectionManager
WS == {"w1", "w2", "w3"}
\* those that run concurrent /ws sessions
Sessions == {"w1", "w2"}

VARIABLES
    \* module-level detector handles (None or initialised), fixed at import
    emotion_detector, pose_detector, face_mesh_detector, hand_detector,
    \* ConnectionManager fields
    active_connections, last_emotion, last_pose,
    \* websocket_endpoint, per WebSocket: position of the handler, whether the
    \* peer is gone, number of messages delivered to the peer
    pc, clientGone, sent,
    \* observation of the last inbound message processed by a /ws handler:
    \* who read it, what it was, the replies that were sent for it, the
    \* modalities that ran for it
    lastFrom, lastIn, lastOut, ran,
    \* observation: the most recent result of analyze_emotion / analyze_pose
    \* that came from an actual detection
    good_emotion, good_pose,
    \* ConnectionManager.broadcast: position, index of the list iterator, and
    \* observations: the list when it started, whether the list changed while
    \* it ran, delivery attempts per connection, connections whose send
    \* raised, connections that got the message, whether broadcast raised
    bpc, bidx, bsnapshot, bdisturbed, battempts, bfailed, bdelivered, braised,
    \* observation of the last direct call of ConnectionManager.disconnect
    called,
    \* beats_websocket: position, whether the peer is gone, the first message
    \* read, the locals tempo, beat_interval and beat_count, the pulses sent
    beat_pc, beatGone, beat_in, tempo, beat_interval, beat_count, pulses,
    \* observation: the delays of the asyncio.sleep calls that returned
    slept,
    \* analyze_hands, per hand: the landmarks handed to recognize_gesture and
    \* the gesture it returned
    hand_landmarks, gesture

gestureVars == <<hand_landmarks, gesture>>
detectorVars == <<emotion_detector, pose_detector, face_mesh_detector, hand_detector>>
cacheVars == <<last_emotion, last_pose, good_emotion, good_pose>>
lastVars == <<lastFrom, lastIn, lastOut, ran>>
bcastVars == <<bpc, bidx, bsnapshot, battempts, bfailed, bdelivered, braised>>
beatVars == <<beat_pc, beatGone, beat_in, tempo, beat_interval, beat_count, pulses,
             slept>>

vars == <<detectorVars, active_connections, cacheVars, pc, clientGone, sent,
          lastVars, bcastVars, bdisturbed, called, beatVars, gestureVars>>

\* ------------------------------------------------------------ JSON helpers
FlagVals == {"true", "false", "absent"}

\* a test of the field that forgets the default of a missing key
GetFlag_NoDefault(v, default) == v = "true"

\* dict.get(key, default) followed by Python truthiness, for a boolean field
GetFlag(v, default) == IF v = "absent" THEN default ELSE v = "true"

\* ------------------------------------------------------- detector results
NoEmotion == [out |-> "none", label |-> ""]
NoLandmarks == [out |-> "none", n |-> 0]

EmotionOuts == {[out |-> "raise", label |-> ""], NoEmotion,
                [out |-> "faces", label |-> "happy"],
                [out |-> "faces", label |-> "sad"]}
PoseOuts == {[out |-> "raise", n |-> 0], NoLandmarks,
             [out |-> "landmarks", n |-> 10], [out |-> "landmarks", n |-> 33]}
FaceOuts == {[out |-> "raise", n |-> 0], NoLandmarks,
             [out |-> "landmarks", n |-> 478]}
HandsOuts == {[out |-> "raise", n |-> 0], NoLandmarks,
              [out |-> "landmarks", n |-> 1]}

\* ConnectionManager.__init__: last_emotion has no all_emotions key
InitialEmotion == [emotion |-> "neutral", confidence |-> 0, all_emotions |-> "absent"]
InitialPose == [detected |-> "absent", landmarks |-> 0, named |-> {}]

analyze_emotion(img) ==
    IF ~emotion_detector
    THEN [emotion |-> "unknown", confidence |-> 0, all_emotions |-> "empty"]
    ELSE IF img.emotion.out = "faces"
         THEN [emotion |-> img.emotion.label, confidence |-> 90,
               all_emotions |-> "scores"]
         ELSE [emotion |-> "neutral", confidence |-> 0, all_emotions |-> "empty"]

\* named keypoints of a pose with n landmarks that hold a point (not None)
PoseNamed(n) ==
    {"nose", "left_shoulder", "right_shoulder"}
      \cup (IF n > 15 THEN {"left_hand"} ELSE {})
      \cup (IF n > 16 THEN {"right_hand"} ELSE {})
      \cup (IF n > 23 THEN {"left_hip"} ELSE {})
      \cup (IF n > 24 THEN {"right_hip"} ELSE {})

\* landmarks[0], landmarks[11] and landmarks[12] are read without a length
\* test: with fewer than 13 landmarks the IndexError is caught by the try
analyze_pose(img) ==
    IF pose_detector /\ img.pose.out = "landmarks" /\ img.pose.n > 12
    THEN [detected |-> "true", landmarks |-> img.pose.n, named |-> PoseNamed(img.pose.n)]
    ELSE [detected |-> "false", landmarks |-> 0, named |-> {}]

\* the feature indices go up to 386: a shorter mesh raises inside the try;
\* the fallback result has no landmark_count key
analyze_face_mesh(img) ==
    IF face_mesh_detector /\ img.face.out = "landmarks" /\ img.face.n > 386
    THEN [detected |-> TRUE, landmark_count |-> {img.face.n}]
    ELSE [detected |-> FALSE, landmark_count |-> {}]

\* no hand found is a result of its own (hand_count 0); the fallback result
\* has no hand_count key
analyze_hands(img) ==
    IF hand_detector /\ img.hands.out # "raise"
    THEN [detected |-> img.hands.n > 0, hand_count |-> {img.hands.n}]
    ELSE [detected |-> FALSE, hand_count |-> {}]

\* whether the result came from a detection rather than from a fallback
EmotionSucceeded(img) == emotion_detector /\ img.emotion.out = "faces"
PoseSucceeded(img) == pose_detector /\ img.pose.out = "landmarks" /\ img.pose.n > 12

\* --------------------------------------------------------- recognize_gesture
\* A landmark is [x, y, z] in thousandths of the normalised image unit; the
\* landmark with id i is element i + 1 of the sequence.  Comparisons are
\* exact on these values; the hands below are placed so that the code's
\* floating-point comparisons give the same answers.
ThumbThreshold == 50
PinchThreshold == 50

Point(x, y, z) == [x |-> x, y |-> y, z |-> z]
At(landmarks, id) == landmarks[id + 1]
Abs(v) == IF v < 0 THEN -v ELSE v

\* calculate_distance(p1, p2) < d, compared on the squares
calculate_distance_below(p1, p2, d) ==
    (p1.x - p2.x) * (p1.x - p2.x) + (p1.y - p2.y) * (p1.y - p2.y)
        + (p1.z - p2.z) * (p1.z - p2.z) < d * d

is_finger_extended(landmarks, tip_id, base_id) ==
    At(landmarks, tip_id).y < At(landmarks, base_id).y

\* a thumb test that counts a lateral distance of exactly the threshold
is_thumb_extended_Inclusive(landmarks) ==
    Abs(At(landmarks, 4).x - At(landmarks, 2).x) >= ThumbThreshold

is_thumb_extended(landmarks) ==
    Abs(At(landmarks, 4).x - At(landmarks, 2).x) > ThumbThreshold

\* the sequence of ifs after the length test; reading the flags indexes up to
\* landmarks[20], which raises IndexError on a shorter list
GestureRules(landmarks) ==
    IF Len(landmarks) < 21 THEN "IndexError"
    ELSE
    LET thumb == is_thumb_extended(landmarks)
        index == is_finger_extended(landmarks, 8, 5)
        middle == is_finger_extended(landmarks, 12, 9)
        ring == is_finger_extended(landmarks, 16, 13)
        pinky == is_finger_extended(landmarks, 20, 17)
    IN  IF ~(index \/ middle \/ ring \/ pinky)
        THEN IF thumb THEN "THUMBS_UP" ELSE "FIST"
        ELSE IF index /\ middle /\ ~ring /\ ~pinky THEN "VICTORY"
        ELSE IF index /\ ~middle /\ ~ring /\ ~pinky THEN "POINT"
        ELSE IF thumb /\ index /\ middle /\ ring /\ pinky THEN "OPEN"
        ELSE IF index /\ middle /\ ring /\ ~pinky THEN "THREE"
        ELSE IF ~index /\ ~middle /\ ~ring /\ pinky THEN "PINKY"
        ELSE IF thumb /\ pinky /\ ~index /\ ~middle /\ ~ring THEN "ROCK"
        ELSE IF calculate_distance_below(At(landmarks, 4), At(landmarks, 8),
                                         PinchThreshold)
             THEN "PINCH"
        ELSE "OPEN"

\* recognize_gesture without its length test
recognize_gesture_NoLengthTest(landmarks) == GestureRules(landmarks)

recognize_gesture(landmarks) ==
    IF Len(landmarks) < 21 THEN "UNKNOWN" ELSE GestureRules(landmarks)

\* "gestures_supported" of the root endpoint
gestures_supported ==
    {"FIST", "OPEN", "POINT", "VICTORY", "THUMBS_UP", "THREE", "PINKY", "ROCK",
     "PINCH"}

\* The hands the detector hands over: the first n landmarks of a hand whose
\* thumb tip is at the origin, whose thumb base is tb to its side, whose index
\* tip is at p, and whose four fingers are each raised (tip above base) or
\* level with their base.
Hand(n, tb, p, index, middle, ring, pinky) ==
    [i \in 1..n |->
        CASE i - 1 = 2 -> Point(tb, 500, 0)
          [] i - 1 = 4 -> Point(0, 0, 0)
          [] i - 1 = 5 -> Point(500, IF index THEN p.y + 100 ELSE p.y, 0)
          [] i - 1 = 8 -> p
          [] i - 1 = 12 -> Point(500, IF middle THEN 400 ELSE 500, 0)
          [] i - 1 = 16 -> Point(500, IF ring THEN 400 ELSE 500, 0)
          [] i - 1 = 20 -> Point(500, IF pinky THEN 400 ELSE 500, 0)
          [] OTHER -> Point(500, 500, 0)]

HandLengths == {0, 20, 21, 22}
ThumbBases == {30, 50, 70}
IndexTips == {Point(30, 30, 0), Point(30, 40, 0), Point(0, 0, 49),
              Point(300, 400, 0)}

Hands ==
    {Hand(n, tb, p, index, middle, ring, pinky) :
        n \in HandLengths, tb \in ThumbBases, p \in IndexTips,
        index \in BOOLEAN, middle \in BOOLEAN, ring \in BOOLEAN,
        pinky \in BOOLEAN}

\* --------------------------------------------------------- inbound messages
NoImg == [emotion |-> NoEmotion, pose |-> NoLandmarks,
          face |-> NoLandmarks, hands |-> NoLandmarks]

\* kind: "malformed" (not JSON), "nonobject" (JSON, but no dict), "object"
Msg(kind, type) ==
    [kind |-> kind, type |-> type, decodes |-> FALSE,
     analyze_emotion |-> "absent", analyze_pose |-> "absent",
     analyze_face_mesh |-> "absent", analyze_hands |-> "absent", img |-> NoImg]

ControlMsgs == {Msg("malformed", "absent"), Msg("nonobject", "absent"),
                Msg("object", "ping"), Msg("object", "audio_chunk"),
                Msg("object", "absent")}

\* every frame message; a detector's behaviour is listed only for the flag
\* values under which the frame can reach it
FrameMsgs ==
    {m \in [kind : {"object"}, type : {"frame"}, decodes : BOOLEAN,
            analyze_emotion : FlagVals, analyze_pose : FlagVals,
            analyze_face_mesh : FlagVals, analyze_hands : FlagVals,
            img : [emotion : EmotionOuts, pose : PoseOuts,
                   face : FaceOuts, hands : HandsOuts]] :
        /\ (~m.decodes \/ m.analyze_emotion # "true") => m.img.emotion = NoEmotion
        /\ (~m.decodes \/ m.analyze_pose # "true") => m.img.pose = NoLandmarks
        /\ (~m.decodes \/ m.analyze_face_mesh # "true") => m.img.face = NoLandmarks
        /\ (~m.decodes \/ m.analyze_hands = "false") => m.img.hands = NoLandmarks
        /\ ~m.decodes => /\ m.analyze_emotion = "absent" /\ m.analyze_pose = "absent"
                         /\ m.analyze_face_mesh = "absent" /\ m.analyze_hands = "absent"}

\* the frames fed to concurrent sessions: emotion and pose only
SessionFrames ==
    {m \in FrameMsgs : m.analyze_face_mesh = "absent" /\ m.analyze_hands = "false"
                       /\ m.analyze_emotion # "absent" /\ m.analyze_pose # "absent"}
      \cup {m \in FrameMsgs : ~m.decodes}

SessionMsgs == ControlMsgs \cup SessionFrames

\* the frames fed to the single session that exercises the dispatch: every
\* combination of the four flags; a detector that runs raises or detects
PipelineFrames ==
    {m \in FrameMsgs :
        /\ m.decodes
        /\ m.img.emotion.label # "sad"
        /\ m.img.pose.n # 10
        /\ m.analyze_emotion = "true" => m.img.emotion # NoEmotion
        /\ m.analyze_pose = "true" => m.img.pose # NoLandmarks
        /\ m.analyze_face_mesh = "true" => m.img.face # NoLandmarks
        /\ m.analyze_hands # "false" => m.img.hands # NoLandmarks}

\* ------------------------------------------------------- ConnectionManager
Elems(list) == {list[i] : i \in DOMAIN list}

Registered == Elems(active_connections)

\* list.remove: the first occurrence
RemoveFirst(list, ws) ==
    LET i == CHOOSE k \in DOMAIN list :
                 list[k] = ws /\ \A j \in 1..(k - 1) : list[j] # ws
    IN  SubSeq(list, 1, i - 1) \o SubSeq(list, i + 1, Len(list))

\* a removal by position that takes "not found" (-1) for the last position
disconnect_ByIndex(list, ws) ==
    IF ws \in Elems(list) THEN RemoveFirst(list, ws)
    ELSE SubSeq(list, 1, Len(list) - 1)

\* a removal that pops the newest connection instead of the given one
disconnect_Last(list, ws) ==
    IF ws \in Elems(list) THEN SubSeq(list, 1, Len(list) - 1) ELSE list

disconnect(list, ws) ==
    IF ws \in Elems(list) THEN RemoveFirst(list, ws) ELSE list

\* observation: the list changes while broadcast iterates over it
Disturbs(newList) == bdisturbed \/ (bpc = "iterating" /\ newList # active_connections)

\* ------------------------------------------------------ websocket_endpoint
\* the reply built for a frame that decoded
AnalysisResponse(m) ==
    [type |-> "analysis",
     emotion |-> IF GetFlag(m.analyze_emotion, FALSE) THEN {analyze_emotion(m.img)} ELSE {},
     pose |-> IF GetFlag(m.analyze_pose, FALSE) THEN {analyze_pose(m.img)} ELSE {},
     face_mesh |-> IF GetFlag(m.analyze_face_mesh, FALSE) THEN {analyze_face_mesh(m.img)} ELSE {},
     hands |-> IF GetFlag(m.analyze_hands, TRUE) THEN {analyze_hands(m.img)} ELSE {}]

Plain(type) == [type |-> type, emotion |-> {}, pose |-> {}, face_mesh |-> {}, hands |-> {}]

\* modalities the handler runs for message m
Modalities(m) ==
    IF m.kind = "object" /\ m.type = "frame" /\ m.decodes
    THEN (IF GetFlag(m.analyze_emotion, FALSE) THEN {"emotion"} ELSE {})
           \cup (IF GetFlag(m.analyze_pose, FALSE) THEN {"pose"} ELSE {})
           \cup (IF GetFlag(m.analyze_face_mesh, FALSE) THEN {"face_mesh"} ELSE {})
           \cup (IF GetFlag(m.analyze_hands, TRUE) THEN {"hands"} ELSE {})
    ELSE {}

\* receive_json raises (json.loads) or data.get raises (no dict): both reach
\* the outer "except Exception"
ReceiveRaises(m) == m.kind # "object"

\* a frame branch whose analyses let a detector's exception through to the
\* except of the branch
Replies_NoIsolation(m) ==
    IF ReceiveRaises(m) THEN <<>>
    ELSE IF m.type = "frame"
         THEN IF m.decodes
                 /\ ~ \/ "emotion" \in Modalities(m) /\ emotion_detector
                                                     /\ m.img.emotion.out = "raise"
                      \/ "pose" \in Modalities(m) /\ pose_detector
                                                  /\ m.img.pose.out = "raise"
                      \/ "face_mesh" \in Modalities(m) /\ face_mesh_detector
                                                       /\ m.img.face.out = "raise"
                      \/ "hands" \in Modalities(m) /\ hand_detector
                                                   /\ m.img.hands.out = "raise"
              THEN <<AnalysisResponse(m)>> ELSE <<Plain("error")>>
         ELSE IF m.type = "ping" THEN <<Plain("pong")>> ELSE <<>>

\* a frame branch that drops a frame it cannot decode without a reply
Replies_NoError(m) ==
    IF ReceiveRaises(m) THEN <<>>
    ELSE IF m.type = "frame"
         THEN IF m.decodes THEN <<AnalysisResponse(m)>> ELSE <<>>
         ELSE IF m.type = "ping" THEN <<Plain("pong")>> ELSE <<>>

\* a loop without the ping branch
Replies_NoPong(m) ==
    IF ReceiveRaises(m) THEN <<>>
    ELSE IF m.type = "frame"
         THEN IF m.decodes THEN <<AnalysisResponse(m)>> ELSE <<Plain("error")>>
         ELSE <<>>

\* the messages the handler tries to send for m, in order, when every send works
Replies(m) ==
    IF ReceiveRaises(m) THEN <<>>
    ELSE IF m.type = "frame"
         THEN IF m.decodes THEN <<AnalysisResponse(m)>> ELSE <<Plain("error")>>
         ELSE IF m.type = "ping" THEN <<Plain("pong")>> ELSE <<>>

NoMsg == Msg("none", "absent")
NoCall == [ws |-> "none", before |-> <<>>, after |-> <<>>, again |-> FALSE]
NoBeatMsg == [kind |-> "none", tempo |-> [t |-> "absent", v |-> 0]]
Unset == [t |-> "unset", v |-> 0]

Init ==
    /\ emotion_detector \in BOOLEAN
    /\ pose_detector \in BOOLEAN
    /\ face_mesh_detector \in BOOLEAN
    /\ hand_detector \in BOOLEAN
    /\ active_connections = <<>>
    /\ last_emotion = InitialEmotion
    /\ last_pose = InitialPose
    /\ good_emotion = InitialEmotion
    /\ good_pose = InitialPose
    /\ pc = [c \in WS |-> "new"]
    /\ clientGone = [c \in WS |-> FALSE]
    /\ sent = [c \in WS |-> 0]
    /\ lastFrom = "none"
    /\ lastIn = NoMsg
    /\ lastOut = <<>>
    /\ ran = {}
    /\ bpc = "idle"
    /\ bidx = 1
    /\ bsnapshot = <<>>
    /\ bdisturbed = FALSE
    /\ battempts = [c \in WS |-> 0]
    /\ bfailed = {}
    /\ bdelivered = {}
    /\ braised = FALSE
    /\ called = NoCall
    /\ beat_pc = "new"
    /\ beatGone = FALSE
    /\ beat_in = NoBeatMsg
    /\ tempo = Unset
    /\ beat_interval = 0
    /\ beat_count = 0
    /\ pulses = <<>>
    /\ slept = <<>>
    /\ hand_landmarks = <<>>
    /\ gesture = "absent"

\* the peer goes away (close frame, broken pipe)
ClientDrop(c) ==
    /\ pc[c] # "closed"
    /\ ~clientGone[c]
    /\ clientGone' = [clientGone EXCEPT ![c] = TRUE]
    /\ UNCHANGED <<gestureVars, detectorVars, active_connections, cacheVars, pc, sent,
                   lastVars, bcastVars, bdisturbed, called, beatVars>>

\* manager.connect: accept, then append; accept raises when the peer is gone
\* and on a WebSocket that was accepted before
Connect(c) ==
    /\ pc[c] = "new"
    /\ IF clientGone[c]
       THEN /\ pc' = [pc EXCEPT ![c] = "closed"]
            /\ UNCHANGED <<active_connections, bdisturbed>>
       ELSE /\ pc' = [pc EXCEPT ![c] = "accepted"]
            /\ active_connections' = Append(active_connections, c)
            /\ bdisturbed' = Disturbs(Append(active_connections, c))
    /\ UNCHANGED <<gestureVars, detectorVars, cacheVars, clientGone, sent, lastVars,
                   bcastVars, called, beatVars>>

\* the send of the "connected" message stands before the try: when it raises
\* the handler ends without reaching manager.disconnect
SendConnected(c) ==
    /\ pc[c] = "accepted"
    /\ IF clientGone[c]
       THEN /\ pc' = [pc EXCEPT ![c] = "closed"]
            /\ UNCHANGED sent
       ELSE /\ pc' = [pc EXCEPT ![c] = "open"]
            /\ sent' = [sent EXCEPT ![c] = @ + 1]
    /\ UNCHANGED <<gestureVars, detectorVars, active_connections, cacheVars, clientGone,
                   lastVars, bcastVars, bdisturbed, called, beatVars>>

\* receive_json raises WebSocketDisconnect: manager.disconnect, handler ends
RecvDisconnect(c) ==
    /\ pc[c] = "open"
    /\ clientGone[c]
    /\ active_connections' = disconnect(active_connections, c)
    /\ bdisturbed' = Disturbs(disconnect(active_connections, c))
    /\ pc' = [pc EXCEPT ![c] = "closed"]
    /\ UNCHANGED <<gestureVars, detectorVars, cacheVars, clientGone, sent, lastVars,
                   bcastVars, called, beatVars>>

\* one turn of the while loop on message m; drop: the peer goes away after
\* the message was read, so that every send of this turn raises.  A send that
\* raises in the frame branch is caught by the inner except, whose own send
\* raises again and reaches the outer except.
HandleMessage(c, m, drop) ==
    /\ pc[c] = "open"
    /\ ~clientGone[c]
    /\ sent[c] < MaxSent
    /\ lastFrom' = c
    /\ lastIn' = m
    /\ ran' = Modalities(m)
    /\ last_emotion' = IF "emotion" \in Modalities(m)
                       THEN analyze_emotion(m.img) ELSE last_emotion
    /\ last_pose' = IF "pose" \in Modalities(m)
                    THEN analyze_pose(m.img) ELSE last_pose
    /\ good_emotion' = IF "emotion" \in Modalities(m) /\ EmotionSucceeded(m.img)
                       THEN analyze_emotion(m.img) ELSE good_emotion
    /\ good_pose' = IF "pose" \in Modalities(m) /\ PoseSucceeded(m.img)
                    THEN analyze_pose(m.img) ELSE good_pose
    /\ LET sendRaises == drop /\ Replies(m) # <<>>
           exits == ReceiveRaises(m) \/ sendRaises
           list == IF exits THEN disconnect(active_connections, c)
                   ELSE active_connections
       IN  /\ clientGone' = [clientGone EXCEPT ![c] = sendRaises]
           /\ lastOut' = IF sendRaises THEN <<>> ELSE Replies(m)
           /\ sent' = IF sendRaises THEN sent
                      ELSE [sent EXCEPT ![c] = @ + Len(Replies(m))]
           /\ pc' = IF exits THEN [pc EXCEPT ![c] = "closed"] ELSE pc
           /\ active_connections' = list
           /\ bdisturbed' = Disturbs(list)
    /\ UNCHANGED <<gestureVars, detectorVars, bcastVars, called, beatVars>>

Next ==
    \/ \E c \in Sessions : ClientDrop(c)
    \/ \E c \in Sessions : Connect(c)
    \/ \E c \in Sessions : SendConnected(c)
    \/ \E c \in Sessions : RecvDisconnect(c)
    \/ \E c \in Sessions, m \in SessionMsgs, drop \in BOOLEAN : HandleMessage(c, m, drop)

\* the session frames never ask for face mesh or hands: those two handles are
\* not read, and are held initialised
InitSessions == Init /\ face_mesh_detector /\ hand_detector

Spec == InitSessions /\ [][Next]_vars

\* the dispatch of one session under every combination of flags and handles
NextPipeline ==
    \/ Connect("w1")
    \/ SendConnected("w1")
    \/ \E m \in PipelineFrames : HandleMessage("w1", m, FALSE)

SpecPipeline == Init /\ [][NextPipeline]_vars

\* ------------------------------------------ ConnectionManager, called directly
\* manager.disconnect(c) for any WebSocket, registered or not
MgrDisconnect(c) ==
    /\ active_connections' = disconnect(active_connections, c)
    /\ called' = [ws |-> c, before |-> active_connections,
                  after |-> disconnect(active_connections, c),
                  again |-> called.ws = c /\ called.after = active_connections]
    /\ bdisturbed' = Disturbs(disconnect(active_connections, c))
    /\ UNCHANGED <<gestureVars, detectorVars, cacheVars, pc, clientGone, sent, lastVars,
                   bcastVars, beatVars>>

\* manager.broadcast is entered: the for statement makes its list iterator
BroadcastStart ==
    /\ bpc \in {"idle", "done"}
    /\ bpc' = "iterating"
    /\ bidx' = 1
    /\ bsnapshot' = active_connections
    /\ bdisturbed' = FALSE
    /\ battempts' = [c \in WS |-> 0]
    /\ bfailed' = {}
    /\ bdelivered' = {}
    /\ braised' = FALSE
    /\ UNCHANGED <<gestureVars, detectorVars, active_connections, cacheVars, pc, clientGone,
                   sent, lastVars, called, beatVars>>

\* a loop body without the try: the first send that raises ends broadcast
BroadcastStep_NoCatch ==
    /\ bpc = "iterating"
    /\ bidx <= Len(active_connections)
    /\ LET c == active_connections[bidx]
       IN  /\ battempts' = [battempts EXCEPT ![c] = @ + 1]
           /\ bfailed' = IF clientGone[c] THEN bfailed \cup {c} ELSE bfailed
           /\ bdelivered' = IF clientGone[c] THEN bdelivered ELSE bdelivered \cup {c}
           /\ bpc' = IF clientGone[c] THEN "done" ELSE bpc
           /\ braised' = clientGone[c]
    /\ bidx' = bidx + 1
    /\ UNCHANGED <<gestureVars, detectorVars, active_connections, cacheVars, pc, clientGone,
                   sent, lastVars, bsnapshot, bdisturbed, called, beatVars>>

\* one turn of the for loop: the iterator yields the item at its index, the
\* send is awaited, whatever it raises is dropped by the bare except
BroadcastStep ==
    /\ bpc = "iterating"
    /\ bidx <= Len(active_connections)
    /\ LET c == active_connections[bidx]
       IN  /\ battempts' = [battempts EXCEPT ![c] = @ + 1]
           /\ bfailed' = IF clientGone[c] THEN bfailed \cup {c} ELSE bfailed
           /\ bdelivered' = IF clientGone[c] THEN bdelivered ELSE bdelivered \cup {c}
    /\ bidx' = bidx + 1
    /\ UNCHANGED <<gestureVars, detectorVars, active_connections, cacheVars, pc, clientGone,
                   sent, lastVars, bpc, bsnapshot, bdisturbed, braised, called,
                   beatVars>>

\* the iterator is exhausted: broadcast returns
BroadcastEnd ==
    /\ bpc = "iterating"
    /\ bidx > Len(active_connections)
    /\ bpc' = "done"
    /\ UNCHANGED <<gestureVars, detectorVars, active_connections, cacheVars, pc, clientGone,
                   sent, lastVars, bidx, bsnapshot, bdisturbed, battempts, bfailed,
                   bdelivered, braised, called, beatVars>>

NextMgr ==
    \/ \E c \in WS : ClientDrop(c)
    \/ \E c \in WS : Connect(c)
    \/ \E c \in WS : MgrDisconnect(c)
    \/ BroadcastStart
    \/ BroadcastStep
    \/ BroadcastEnd

\* the detectors are not used by the ConnectionManager
Loaded == emotion_detector /\ pose_detector /\ face_mesh_detector /\ hand_detector

InitLoaded == Init /\ Loaded

SpecMgr == InitLoaded /\ [][NextMgr]_vars

\* ---------------------------------------------------------- beats_websocket
\* first messages of a /ws/beats client: not JSON, JSON but no dict, or a dict
\* whose tempo key is missing, a number, a string or null
BeatMsgs ==
    {[kind |-> "malformed", tempo |-> [t |-> "absent", v |-> 0]],
     [kind |-> "nonobject", tempo |-> [t |-> "absent", v |-> 0]]}
      \cup {[kind |-> "object", tempo |-> [t |-> "absent", v |-> 0]],
            [kind |-> "object", tempo |-> [t |-> "string", v |-> 0]],
            [kind |-> "object", tempo |-> [t |-> "null", v |-> 0]]}
      \cup {[kind |-> "object", tempo |-> [t |-> "number", v |-> n]] :
               n \in {240, 120, 60, 30, 0, -60}}

DefaultTempo == 120

\* data.get("tempo", 120)
GetTempo(m) == IF m.tempo.t = "absent" THEN [t |-> "number", v |-> DefaultTempo]
               ELSE m.tempo

\* 60.0 / tempo raises ZeroDivisionError for 0 and TypeError for no number
DivisionRaises(tp) == tp.t # "number" \/ tp.v = 0

\* an interval of tempo / 60 seconds
Interval_Inverted(tp) == (tp.v * 1000) \div 60

\* 60.0 / tempo, in milliseconds (exact for the tempos of BeatMsgs)
Interval(tp) == 60000 \div tp.v

\* a handler that starts the loop on the default tempo without reading
BeatAccept_NoWait ==
    /\ beat_pc = "new"
    /\ beat_pc' = IF beatGone THEN "terminated" ELSE "send"
    /\ tempo' = [t |-> "number", v |-> DefaultTempo]
    /\ beat_interval' = Interval([t |-> "number", v |-> DefaultTempo])
    /\ UNCHANGED <<gestureVars, detectorVars, active_connections, cacheVars, pc, clientGone,
                   sent, lastVars, bcastVars, bdisturbed, called, slept,
                   beatGone, beat_in, beat_count, pulses>>

\* websocket.accept, which stands before the try; it raises when the peer is gone
BeatAccept ==
    /\ beat_pc = "new"
    /\ beat_pc' = IF beatGone THEN "terminated" ELSE "idle"
    /\ UNCHANGED <<gestureVars, detectorVars, active_connections, cacheVars, pc, clientGone,
                   sent, lastVars, bcastVars, bdisturbed, called, slept,
                   beatGone, beat_in, tempo, beat_interval, beat_count, pulses>>

\* the peer of the beat connection goes away
BeatClientDrop ==
    /\ beat_pc # "terminated"
    /\ ~beatGone
    /\ beatGone' = TRUE
    /\ UNCHANGED <<gestureVars, detectorVars, active_connections, cacheVars, pc, clientGone,
                   sent, lastVars, bcastVars, bdisturbed, called, slept,
                   beat_pc, beat_in, tempo, beat_interval, beat_count, pulses>>

\* receive_json raises WebSocketDisconnect before a first message came
BeatRecvDisconnect ==
    /\ beat_pc = "idle"
    /\ beatGone
    /\ beat_pc' = "terminated"
    /\ UNCHANGED <<gestureVars, detectorVars, active_connections, cacheVars, pc, clientGone,
                   sent, lastVars, bcastVars, bdisturbed, called, slept,
                   beatGone, beat_in, tempo, beat_interval, beat_count, pulses>>

\* the first message is read: tempo, beat_interval and beat_count are set and
\* the loop is entered, unless one of these statements raises
BeatFirstMessage(m) ==
    /\ beat_pc = "idle"
    /\ ~beatGone
    /\ beat_in' = m
    /\ IF m.kind # "object"
       THEN /\ beat_pc' = "terminated"
            /\ UNCHANGED <<tempo, beat_interval, beat_count>>
       ELSE /\ tempo' = GetTempo(m)
            /\ IF DivisionRaises(GetTempo(m))
               THEN /\ beat_pc' = "terminated"
                    /\ UNCHANGED <<beat_interval, beat_count>>
               ELSE /\ beat_interval' = Interval(GetTempo(m))
                    /\ beat_count' = 0
                    /\ beat_pc' = "send"
    /\ UNCHANGED <<gestureVars, detectorVars, active_connections, cacheVars, pc, clientGone,
                   sent, lastVars, bcastVars, bdisturbed, called, slept, beatGone, pulses>>

\* a loop that counts before it sends
BeatSend_CountFirst ==
    /\ beat_pc = "send"
    /\ IF beatGone
       THEN /\ beat_pc' = "terminated"
            /\ UNCHANGED <<beat_count, pulses>>
       ELSE /\ beat_count < MaxBeats
            /\ pulses' = Append(pulses, [count |-> beat_count + 1, tempo |-> tempo])
            /\ beat_count' = beat_count + 1
            /\ beat_pc' = "sleep"
    /\ UNCHANGED <<gestureVars, detectorVars, active_connections, cacheVars, pc, clientGone,
                   sent, lastVars, bcastVars, bdisturbed, called, slept,
                   beatGone, beat_in, tempo, beat_interval>>

\* a loop that drops the exception of a send and goes on
BeatSend_Swallow ==
    /\ beat_pc = "send"
    /\ IF beatGone
       THEN /\ beat_pc' = "sleep"
            /\ UNCHANGED <<beat_count, pulses>>
       ELSE /\ beat_count < MaxBeats
            /\ pulses' = Append(pulses, [count |-> beat_count, tempo |-> tempo])
            /\ beat_count' = beat_count + 1
            /\ beat_pc' = "sleep"
    /\ UNCHANGED <<gestureVars, detectorVars, active_connections, cacheVars, pc, clientGone,
                   sent, lastVars, bcastVars, bdisturbed, called, slept,
                   beatGone, beat_in, tempo, beat_interval>>

\* send_json of the pulse, then beat_count += 1; a send that raises leaves
\* the loop through one of the except clauses
BeatSend ==
    /\ beat_pc = "send"
    /\ IF beatGone
       THEN /\ beat_pc' = "terminated"
            /\ UNCHANGED <<beat_count, pulses>>
       ELSE /\ beat_count < MaxBeats
            /\ pulses' = Append(pulses, [count |-> beat_count, tempo |-> tempo])
            /\ beat_count' = beat_count + 1
            /\ beat_pc' = "sleep"
    /\ UNCHANGED <<gestureVars, detectorVars, active_connections, cacheVars, pc, clientGone,
                   sent, lastVars, bcastVars, bdisturbed, called, slept,
                   beatGone, beat_in, tempo, beat_interval>>

\* asyncio.sleep(beat_interval) returns (at once for an interval <= 0)
\* (slept records the delays of the sleeps that follow the MaxBeats pulses)
BeatSleep ==
    /\ beat_pc = "sleep"
    /\ beat_pc' = "send"
    /\ slept' = IF Len(slept) < MaxBeats THEN Append(slept, beat_interval)
                ELSE slept
    /\ UNCHANGED <<gestureVars, detectorVars, active_connections, cacheVars, pc, clientGone,
                   sent, lastVars, bcastVars, bdisturbed, called,
                   beatGone, beat_in, tempo, beat_interval, beat_count, pulses>>

NextBeats ==
    \/ BeatAccept
    \/ BeatClientDrop
    \/ BeatRecvDisconnect
    \/ \E m \in BeatMsgs : BeatFirstMessage(m)
    \/ BeatSend
    \/ BeatSleep

SpecBeats == InitLoaded /\ [][NextBeats]_vars

\* the states of the scheduler
BeatState == IF beat_pc \in {"new", "idle"} THEN "Idle"
             ELSE IF beat_pc \in {"send", "sleep"} THEN "Running"
             ELSE "Terminated"

\* ------------------------------------------- one /ws and one /ws/beats handler
NextLive ==
    \/ ClientDrop("w1")
    \/ Connect("w1")
    \/ SendConnected("w1")
    \/ RecvDisconnect("w1")
    \/ \E m \in SessionMsgs, drop \in BOOLEAN : HandleMessage("w1", m, drop)
    \/ BeatAccept
    \/ BeatClientDrop
    \/ BeatRecvDisconnect
    \/ \E m \in BeatMsgs : BeatFirstMessage(m)
    \/ BeatSend
    \/ BeatSleep

\* the event loop runs every task that can go on: an accept, a send or a
\* receive on a connection completes or raises, a sleep returns.  Nothing
\* makes a client send a message.
HandlerFairness ==
    /\ WF_vars(Connect("w1"))
    /\ WF_vars(SendConnected("w1"))
    /\ WF_vars(RecvDisconnect("w1"))
    /\ WF_vars(BeatAccept)
    /\ WF_vars(BeatRecvDisconnect)
    /\ WF_vars(BeatSend)
    /\ WF_vars(BeatSleep)

FairSpec == InitLoaded /\ [][NextLive]_vars /\ HandlerFairness

\* ------------------------------------------------ frames whose detectors fail
\* detect_emotions returns a list whose first entry has no 'emotions' key
MalformedEmotion == [out |-> "malformed", label |-> ""]
\* a face mesh too short for the feature indices
ShortMesh == [out |-> "landmarks", n |-> 100]

\* frames that decode and ask for emotion, pose and hands, with or without
\* face mesh, under every behaviour of the detectors they reach
FailureFrames ==
    {[kind |-> "object", type |-> "frame", decodes |-> TRUE,
      analyze_emotion |-> "true", analyze_pose |-> "true",
      analyze_face_mesh |-> f, analyze_hands |-> "true",
      img |-> [emotion |-> e, pose |-> p, face |-> fm, hands |-> h]] :
        f \in {"true", "absent"},
        e \in {o \in EmotionOuts : o.label # "sad"} \cup {MalformedEmotion},
        p \in PoseOuts,
        fm \in FaceOuts \cup {ShortMesh},
        h \in HandsOuts}
      \ {m \in [kind : {"object"}, type : {"frame"}, decodes : {TRUE},
                analyze_emotion : {"true"}, analyze_pose : {"true"},
                analyze_face_mesh : {"absent"}, analyze_hands : {"true"},
                img : [emotion : EmotionOuts \cup {MalformedEmotion},
                       pose : PoseOuts, face : FaceOuts \cup {ShortMesh},
                       hands : HandsOuts]] : m.img.face # NoLandmarks}

NextFailures ==
    \/ Connect("w1")
    \/ SendConnected("w1")
    \/ \E m \in FailureFrames : HandleMessage("w1", m, FALSE)

SpecFailures == Init /\ [][NextFailures]_vars

\* ------------------------------------------------ gestures of detected hands
\* analyze_hands, for one detected hand: gesture = recognize_gesture(landmarks)
Classify(landmarks) ==
    /\ hand_landmarks' = landmarks
    /\ gesture' = recognize_gesture(landmarks)
    /\ UNCHANGED <<detectorVars, active_connections, cacheVars, pc, clientGone,
                   sent, lastVars, bcastVars, bdisturbed, called, beatVars>>

NextGesture == \E landmarks \in Hands : Classify(landmarks)

SpecGesture == InitLoaded /\ [][NextGesture]_vars

\* ------------------------------------------------------------------ claims

\* C1: for an inbound /ws message that is malformed or whose type is neither
\* "frame" nor "ping" (a missing type included), the handler sends exactly an
\* error message to the sender, and the sender stays open and registered.
C1_UnknownGetsErrorAndStaysOpen ==
    (/\ lastFrom \in WS
     /\ ~clientGone[lastFrom]
     /\ (lastIn.kind # "object" \/ lastIn.type \notin {"frame", "ping"}))
    => /\ Len(lastOut) = 1
       /\ lastOut[1].type = "error"
       /\ pc[lastFrom] = "open"
       /\ lastFrom \in Registered

\* C2: manager.last_emotion and manager.last_pose hold the result of the most
\* recent analysis of their modality that detected something; a failed
\* analysis leaves them as they were.
C2_CacheHoldsLastSuccess ==
    /\ last_emotion = good_emotion
    /\ last_pose = good_pose

\* C3: a /ws handler that has ended, for whatever reason, has its WebSocket
\* out of manager.active_connections.
C3_ExitedHandlerUnregistered ==
    \A c \in WS : pc[c] = "closed" => c \notin Registered

\* C4: a broadcast during which the list of connections does not change makes
\* one delivery attempt per registered connection and none for the others,
\* does not raise, and delivers to every connection whose send did not fail.
C4_BroadcastReachesAll ==
    (bpc = "done" /\ ~bdisturbed)
    => /\ ~braised
       /\ \A c \in WS : battempts[c] = IF c \in Elems(bsnapshot) THEN 1 ELSE 0
       /\ bfailed \subseteq Elems(bsnapshot)
       /\ bdelivered = Elems(bsnapshot) \ bfailed

\* three registered connections, the send to the second one fails
C4_Witness ==
    /\ bpc = "done" /\ ~bdisturbed
    /\ bsnapshot = <<"w1", "w2", "w3">>
    /\ bfailed = {"w2"}
    /\ bdelivered = {"w1", "w3"}

\* C5: manager.disconnect removes exactly the given WebSocket and keeps the
\* others in their order; for a WebSocket that is not in the list it changes
\* nothing, hence a second call in a row changes nothing.
C5_DisconnectIdempotent ==
    called.ws # "none"
    => /\ called.after = SelectSeq(called.before, LAMBDA x : x # called.ws)
       /\ called.ws \notin Elems(called.before) => called.after = called.before
       /\ called.again => called.after = called.before

\* a registered WebSocket is disconnected twice in a row while another one
\* stays registered
C5_Witness ==
    /\ called.again
    /\ called.ws = "w1"
    /\ called.before = <<"w2">>
    /\ active_connections = <<"w2">>
    /\ pc["w1"] = "accepted"

\* C6: once the first message of a /ws/beats client is read, the scheduler
\* runs (and ends only when the peer is gone) with a tempo above 0 and an
\* interval above 0, the tempo being 120 when the tempo field is missing,
\* zero, negative or no number.
C6_TempoDefaultsAndRuns ==
    beat_in.kind = "object"
    => /\ BeatState # "Idle"
       /\ BeatState = "Terminated" => beatGone
       /\ tempo.t = "number" /\ tempo.v > 0
       /\ beat_interval > 0
       /\ (beat_in.tempo.t # "number" \/ beat_in.tempo.v <= 0) => tempo.v = 120

\* C7: the i-th pulse of a /ws/beats session carries count i - 1 and the
\* tempo read from the first message; beat_count is the number of pulses sent.
C7_PulseCountsInOrder ==
    /\ \A i \in DOMAIN pulses :
          /\ pulses[i].count = i - 1
          /\ pulses[i].tempo = GetTempo(beat_in)
    /\ BeatState = "Running" => beat_count = Len(pulses)

C7_Witness ==
    /\ BeatState = "Running"
    /\ Len(pulses) = 3
    /\ pulses[3] = [count |-> 2, tempo |-> [t |-> "number", v |-> 60]]

\* C8: the beat scheduler goes Idle, Running, Terminated and never back: no
\* pulse is sent while it is Idle or before the first message is read, and
\* once it is Terminated it stays so and sends no pulse.
C8_Lifecycle ==
    /\ []((BeatState = "Idle" \/ beat_in.kind = "none") => pulses = <<>>)
    /\ [][/\ BeatState = "Terminated" =>
               (BeatState' = "Terminated" /\ pulses' = pulses)
          /\ BeatState = "Running" => BeatState' # "Idle"
          /\ pulses' # pulses => (BeatState = "Running" /\ ~beatGone)]_vars

\* the loop ended by a send that raised, after two pulses
C8_Witness ==
    /\ BeatState = "Terminated"
    /\ beatGone
    /\ Len(pulses) = 2

\* C9: once the peer of a /ws or of a /ws/beats connection is gone, the
\* handler of that connection ends.
C9_HandlersTerminate ==
    /\ clientGone["w1"] ~> (pc["w1"] = "closed")
    /\ beatGone ~> (beat_pc = "terminated")

\* both handlers ended after their peer left, each after it had sent
C9_Witness ==
    /\ clientGone["w1"] /\ pc["w1"] = "closed" /\ sent["w1"] = 2
    /\ beatGone /\ beat_pc = "terminated" /\ Len(pulses) = 2

C12_EmotionFailureIsNeutral ==
    (/\ lastFrom \in WS /\ lastIn.type = "frame" /\ lastIn.decodes
     /\ Len(lastOut) = 1
     /\ (~emotion_detector
           \/ lastIn.img.emotion.out \in {"raise", "none", "malformed"}))
    => \A r \in lastOut[1].emotion : r.emotion = "neutral" /\ r.confidence = 0

\* C13: a pose detection of n landmarks gives a detected result with its n
\* landmarks in which a named keypoint holds a point exactly when n is above
\* its index (nose 0, shoulders 11 and 12, hands 15 and 16, hips 23 and 24).
C13_NamedKeypointsFollowCount ==
    (/\ lastFrom \in WS /\ lastIn.type = "frame" /\ lastIn.decodes
     /\ Len(lastOut) = 1
     /\ pose_detector
     /\ lastIn.img.pose.out = "landmarks")
    => \A r \in lastOut[1].pose :
          /\ r.detected = "true"
          /\ r.landmarks = lastIn.img.pose.n
          /\ r.named =
               {k \in {"nose", "left_shoulder", "right_shoulder", "left_hand",
                       "right_hand", "left_hip", "right_hip"} :
                  lastIn.img.pose.n >
                    (CASE k = "nose" -> 0
                       [] k = "left_shoulder" -> 11 [] k = "right_shoulder" -> 12
                       [] k = "left_hand" -> 15 [] k = "right_hand" -> 16
                       [] k = "left_hip" -> 23 [] k = "right_hip" -> 24)}

\* C14: recognize_gesture returns UNKNOWN for every landmark list shorter than
\* 21 and does not raise; for a list of 21 or more landmarks it returns a
\* label other than UNKNOWN.
C14_ShortListIsUnknown ==
    gesture # "absent" =>
        /\ Len(hand_landmarks) < 21 => gesture = "UNKNOWN"
        /\ Len(hand_landmarks) >= 21 => gesture \in gestures_supported

C14_Witness ==
    /\ Len(hand_landmarks) = 20
    /\ gesture = "UNKNOWN"

\* C15: for 21 landmarks recognize_gesture returns the label of the first
\* rule of the ordered table that matches: (1) no finger raised: THUMBS_UP
\* with the thumb out, else FIST; (2) index, middle: VICTORY; (3) index:
\* POINT; (4) all five: OPEN; (5) index, middle, ring: THREE; (6) pinky:
\* PINKY; (7) thumb and pinky: ROCK; (8) PINCH when thumb tip and index tip
\* are closer than 0.05, else OPEN.  A finger is raised iff its tip y is
\* strictly below its base y, the thumb is out iff |x4 - x2| > 0.05.
C15_FirstMatchingRule ==
    (gesture # "absent" /\ Len(hand_landmarks) = 21) =>
        LET x(id) == hand_landmarks[id + 1].x
            y(id) == hand_landmarks[id + 1].y
            z(id) == hand_landmarks[id + 1].z
            t == (IF x(4) < x(2) THEN x(2) - x(4) ELSE x(4) - x(2)) > 50
            i == y(8) < y(5)
            m == y(12) < y(9)
            r == y(16) < y(13)
            p == y(20) < y(17)
            near == (x(4) - x(8)) * (x(4) - x(8)) + (y(4) - y(8)) * (y(4) - y(8))
                      + (z(4) - z(8)) * (z(4) - z(8)) < 2500
            table == << <<~i /\ ~m /\ ~r /\ ~p /\ t, "THUMBS_UP">>,
                        <<~i /\ ~m /\ ~r /\ ~p /\ ~t, "FIST">>,
                        <<i /\ m /\ ~r /\ ~p, "VICTORY">>,
                        <<i /\ ~m /\ ~r /\ ~p, "POINT">>,
                        <<t /\ i /\ m /\ r /\ p, "OPEN">>,
                        <<i /\ m /\ r /\ ~p, "THREE">>,
                        <<~i /\ ~m /\ ~r /\ p, "PINKY">>,
                        <<t /\ p /\ ~i /\ ~m /\ ~r, "ROCK">>,
                        <<near, "PINCH">>,
                        <<TRUE, "OPEN">> >>
            first == CHOOSE j \in 1..Len(table) :
                        table[j][1] /\ \A k \in 1..(j - 1) : ~table[k][1]
        IN  gesture = table[first][2]

\* four fingers level with their bases and the thumb base exactly 0.05 to
\* the side of the thumb tip: FIST
C15_Witness ==
    /\ Len(hand_landmarks) = 21
    /\ hand_landmarks[3].x - hand_landmarks[5].x = ThumbThreshold
    /\ hand_landmarks[9].y = hand_landmarks[6].y
    /\ gesture = "FIST"

\* C16: a hand of 21 landmarks whose thumb tip and index tip are closer than
\* 0.05 and whose middle, ring and pinky fingers are not raised is PINCH.
C16_PinchWithOthersFolded ==
    (/\ gesture # "absent"
     /\ Len(hand_landmarks) = 21
     /\ calculate_distance_below(At(hand_landmarks, 4), At(hand_landmarks, 8),
                                 PinchThreshold)
     /\ ~is_finger_extended(hand_landmarks, 12, 9)
     /\ ~is_finger_extended(hand_landmarks, 16, 13)
     /\ ~is_finger_extended(hand_landmarks, 20, 17))
    => gesture = "PINCH"

\* C17: a hand of 21 landmarks with thumb and pinky out and index, middle and
\* ring folded is ROCK, a label of the advertised vocabulary.
C17_RockIsReturned ==
    (/\ gesture # "absent"
     /\ Len(hand_landmarks) = 21
     /\ is_thumb_extended(hand_landmarks)
     /\ is_finger_extended(hand_landmarks, 20, 17)
     /\ ~is_finger_extended(hand_landmarks, 8, 5)
     /\ ~is_finger_extended(hand_landmarks, 12, 9)
     /\ ~is_finger_extended(hand_landmarks, 16, 13))
    => gesture = "ROCK"

\* C18: a frame whose payload does not decode, read from a peer that is still
\* there, is answered by exactly one error message on its own connection and
\* by nothing on any other; no modality runs, manager.last_emotion,
\* manager.last_pose and the list of live connections keep their values, and
\* the handler stays in its loop.  (The flags of such a frame are never read:
\* Msg("object", "frame") is the one frame of SessionFrames that does not
\* decode.)
C18_DecodeFailureIsLocal ==
    [][\A c \in Sessions :
         HandleMessage(c, Msg("object", "frame"), FALSE) =>
            /\ lastOut' = <<Plain("error")>>
            /\ sent' = [sent EXCEPT ![c] = @ + 1]
            /\ ran' = {}
            /\ last_emotion' = last_emotion
            /\ last_pose' = last_pose
            /\ active_connections' = active_connections
            /\ c \in Elems(active_connections')
            /\ pc' = pc
            /\ pc'[c] = "open"
            /\ ~clientGone'[c]]_vars

\* w2 got the error for a frame that does not decode while the caches hold
\* the results of an earlier frame of w1
C18_Witness ==
    /\ lastFrom = "w2"
    /\ lastIn.type = "frame" /\ ~lastIn.decodes
    /\ lastOut = <<Plain("error")>>
    /\ ran = {}
    /\ last_emotion.emotion = "happy"
    /\ last_pose.detected = "true"
    /\ pc["w2"] = "open" /\ pc["w1"] = "open"
    /\ "w2" \in Elems(active_connections)
    /\ sent["w1"] = 2 /\ sent["w2"] = 2

\* C19: a ping read from a peer that is still there is answered by exactly
\* one pong on the same connection within the same turn of the loop, before
\* the next receive; the list of live connections and manager.last_emotion /
\* manager.last_pose keep their values.
C19_PingGetsOnePong ==
    [][\A c \in Sessions :
         HandleMessage(c, Msg("object", "ping"), FALSE) =>
            /\ lastOut' = <<Plain("pong")>>
            /\ sent' = [sent EXCEPT ![c] = @ + 1]
            /\ ran' = {}
            /\ last_emotion' = last_emotion
            /\ last_pose' = last_pose
            /\ active_connections' = active_connections
            /\ pc' = pc
            /\ pc'[c] = "open"]_vars

C19_Witness ==
    /\ lastFrom = "w2"
    /\ lastIn = Msg("object", "ping")
    /\ lastOut = <<Plain("pong")>>
    /\ last_emotion.emotion = "happy"
    /\ pc["w2"] = "open"
    /\ Elems(active_connections) = {"w1", "w2"}
    /\ sent["w2"] = 2

\* C20: while a /ws/beats handler runs on a tempo t > 0, the first pulse is
\* sent before any sleep, exactly one sleep lies between one pulse and the
\* next, every sleep lasts 60/t seconds (500 ms for 120, 1000 ms for 60), and
\* beat_interval keeps the value it got when the loop was entered.
C20_OneSleepOfIntervalBetweenPulses ==
    /\ []((BeatState = "Running" /\ tempo.v > 0) =>
            /\ Len(slept) = IF beat_pc = "sleep" THEN Len(pulses) - 1
                            ELSE Len(pulses)
            /\ \A i \in 1..Len(slept) :
                  /\ slept[i] * tempo.v = 60000
                  /\ tempo.v = 120 => slept[i] = 500
                  /\ tempo.v = 60 => slept[i] = 1000)
    /\ [][BeatState = "Running" => beat_interval' = beat_interval]_vars

\* three pulses at tempo 120 with two sleeps of half a second between them
C20_Witness ==
    /\ BeatState = "Running"
    /\ tempo = [t |-> "number", v |-> 120]
    /\ beat_pc = "sleep"
    /\ Len(pulses) = 3
    /\ slept = <<500, 500>>

C22_SteadyConnectionsAttemptedOnce ==
    bpc = "done" =>
        \A c \in Elems(bsnapshot) \cap Registered : battempts[c] = 1

====
